---- MODULE Spec2Model ----
(***************************************************************************)
(* delivery-api: an Express API over a Firestore document store.           *)
(*                                                                         *)
(* Two revisions of functions/index.js are modelled side by side, selected *)
(* by the variable variant, which never changes after Init:                *)
(*   "seq"  - src/functions/index.js lines 175-453: document keys come     *)
(*            from the transactional counter nextId(sequence);             *)
(*   "auto" - src/unnamed/part_000: document keys are generated by the     *)
(*            store (collection.add).                                      *)
(* Lines 1-173 of src/functions/index.js are an earlier revision whose     *)
(* routes do inline what part_000 does through its helper functions; it is *)
(* covered by "auto".                                                      *)
(* In "seq" the operations createUser and createAddress are also callable  *)
(* on their own (no route of index.js 175-453 reaches createAddress, and   *)
(* createUser is reached with role 0 or 1 only); in "auto" they are        *)
(* POST /users and POST /users/:id/addresses.                              *)
(*                                                                         *)
(* Every request handler is an async function: the code between two awaits *)
(* runs without interruption, and other requests may run at every await.   *)
(* One action of the model is one such stretch of one request: it ends at  *)
(* the store operation the handler awaits next.                            *)
(*                                                                         *)
(* Optional values (undefined / null in the source) are sequences of       *)
(* length 0 or 1: None is <<>>, a present value v is <<v>>.                *)
(* The payload fields picture, image_car, lat and lng are copied through   *)
(* by the source without any branch depending on them; they are left out   *)
(* of the records.                                                         *)
(***************************************************************************)
EXTENDS Integers, Sequences, FiniteSets, TLC

(* ------------------------------ bounds --------------------------------- *)
\* concurrent requests in flight
NumProcs == 2
\* requests started in one behaviour
MaxReqs == 3
\* documents a request may name in its path: the first MaxTarget keys
MaxTarget == 2

\* attempts of one db.runTransaction call (the store client's default)
MaxAttempts == 5
\* e.code of the error a transaction rejects with once its attempts are used up
ABORTED == 10

Procs == 1..NumProcs

None == <<>>
Some(v) == <<v>>

(* ------------------------------ inputs --------------------------------- *)
\* POST /users: every role with valid fields, and one request per missing field
PostUsersArgs ==
    { [name |-> "A", password |-> "x", phone |-> "p1", role |-> r] :
          r \in { None, Some(0), Some(1), Some(2) } }
    \cup { [name |-> "", password |-> "x", phone |-> "p1", role |-> None],
           [name |-> "A", password |-> "", phone |-> "p1", role |-> None],
           [name |-> "A", password |-> "x", phone |-> "", role |-> None] }

\* POST /register/user: two phones, and two passwords for the same phone
RegisterUserArgs ==
    { [name |-> "A", password |-> "x", phone |-> "p1"],
      [name |-> "A", password |-> "y", phone |-> "p1"],
      [name |-> "A", password |-> "x", phone |-> "p2"] }

\* POST /register/rider: valid, a vehicle field missing, a user field missing
RegisterRiderArgs ==
    { [name |-> "A", password |-> "x", phone |-> "p1", plate |-> "pl", carType |-> "car"],
      [name |-> "A", password |-> "x", phone |-> "p1", plate |-> "", carType |-> "car"],
      [name |-> "A", password |-> "x", phone |-> "p1", plate |-> "pl", carType |-> ""],
      [name |-> "", password |-> "x", phone |-> "p1", plate |-> "pl", carType |-> "car"] }

\* POST /login: right and wrong password, and a missing field each
LoginArgs ==
    { [phone |-> "p1", password |-> "x"], [phone |-> "p1", password |-> "y"],
      [phone |-> "", password |-> "x"], [phone |-> "p1", password |-> ""] }

\* body of PATCH /users/:id: a phone, a role in or out of range, or nothing
PatchArgs ==
    { [phone |-> Some("p1"), role |-> None], [phone |-> Some("p2"), role |-> None],
      [phone |-> None, role |-> Some(0)], [phone |-> None, role |-> Some(2)],
      [phone |-> None, role |-> None] }

(* ------------------------------ state ---------------------------------- *)
VARIABLES
    variant,    \* "seq" or "auto": which revision of index.js runs
    users,      \* collection "user": document key -> document
    cars,       \* collection "rider_car"
    addrs,      \* collection "user_address"
    counters,   \* collection "_counters": sequence name -> [value |-> n]
    autoN,      \* number of keys the store has generated for add()
    rq,         \* per request slot: the request, its position and its locals
    issued,     \* history: per sequence, the values nextId has returned, in order
    started,    \* history: number of requests started
    created     \* history: the document keys createUser has written

vars == <<variant, users, cars, addrs, counters, autoN, rq, issued, started, created>>

SeqNames == {"user_seq", "address_seq", "rider_seq"}

\* String(n) of an allocated number, and the key the store generates for add()
KeyOfNum(n) == ToString(n)
AutoKey(n) == "k" \o ToString(n)

\* document keys a request may name in its path
TargetKeys == IF variant = "seq" THEN { KeyOfNum(n) : n \in 1..MaxTarget }
              ELSE { AutoKey(n) : n \in 1..MaxTarget }

\* isNaN(Number(user_id)) ? String(user_id) : Number(user_id)
UserIdField(key) ==
    IF \E n \in 1..(MaxReqs + 1) : KeyOfNum(n) = key
    THEN [num |-> CHOOSE n \in 1..(MaxReqs + 1) : KeyOfNum(n) = key]
    ELSE [str |-> key]

\* the document key a stored user_id field names
KeyOfField(f) == IF "num" \in DOMAIN f THEN KeyOfNum(f.num) ELSE f.str

\* {...a, ...b}
Merge(a, b) ==
    [k \in (DOMAIN a) \cup (DOMAIN b) |-> IF k \in DOMAIN b THEN b[k] ELSE a[k]]

\* collection.doc(key).set(data) / add(data)
Put(col, key, data) ==
    [k \in (DOMAIN col) \cup {key} |-> IF k = key THEN data ELSE col[k]]

\* collection.doc(key).delete()
Remove(col, key) == [k \in (DOMAIN col) \ {key} |-> col[k]]

\* where("phone", "==", phone): the keys of the matching documents; limit(1)
\* yields one of them, and the callers take any
UsersByPhone(ph) == { k \in DOMAIN users : users[k].phone = ph }

Idle ==
    [ pc |-> "idle", op |-> "none",
      name |-> "", password |-> "", phone |-> "", role |-> None,
      roleInt |-> None, user |-> None,
      id |-> "", plate |-> "", carType |-> "", address |-> "", patch |-> None,
      seq |-> "", snap |-> None, attempts |-> 0, idNum |-> None,
      userKey |-> None, wrote |-> None, carKey |-> None, addrKey |-> None,
      resp |-> None,
      alone |-> TRUE, touched |-> FALSE, dupAtStart |-> FALSE, noUser |-> FALSE ]

InFlight(q) == rq[q].pc \notin {"idle", "done"}

Init ==
    /\ variant \in {"seq", "auto"}
    /\ users = << >>
    /\ cars = << >>
    /\ addrs = << >>
    /\ counters = << >>
    /\ autoN = 0
    /\ rq = [p \in Procs |-> Idle]
    /\ issued = [s \in SeqNames |-> << >>]
    /\ started = 0
    /\ created = {}


(* ------------------------------ helpers -------------------------------- *)
\* the request in slot p moves on to r
Step(p, r) == rq' = [rq EXCEPT ![p] = r]

\* a request arrives in slot p; r is its state at its first await
Begin(p, r) ==
    /\ ~InFlight(p)
    /\ started < MaxReqs
    /\ started' = started + 1
    /\ rq' = [q \in Procs |->
                IF q = p
                THEN [r EXCEPT !.alone = \A o \in Procs \ {p} : ~InFlight(o)]
                ELSE IF InFlight(q) THEN [rq[q] EXCEPT !.alone = FALSE]
                ELSE rq[q]]

\* res.status(status).json(body)
Respond(r, status, body) ==
    [r EXCEPT !.pc = "done", !.resp = Some([status |-> status, body |-> body])]

\* catch (e): res.status(e.code || 400).json({error: e.message, ...(e.payload || {})})
Throw(r, code, message, payload) ==
    Respond(r, code, Merge([error |-> message], payload))

\* history: another request deletes or updates the user document a request created
Touch(f, key, p) ==
    [q \in Procs |->
        IF q # p /\ f[q].userKey = Some(key)
        THEN [f[q] EXCEPT !.touched = TRUE] ELSE f[q]]

(* --------------------------- nextId(sequence) -------------------------- *)
ReadCounterFromUsers(s) ==
    [exists |-> s \in DOMAIN counters, value |-> Cardinality(DOMAIN users)]

\* tx.get(ref): snap.exists and Number(snap.data().value || 0)
ReadCounter(s) ==
    IF s \in DOMAIN counters
    THEN [exists |-> TRUE, value |-> counters[s].value]
    ELSE [exists |-> FALSE, value |-> 0]

CanCommitUnchecked(p) == TRUE

\* the commit of a transaction goes through only if the document it read is
\* unchanged since the read
CanCommit(p) == ReadCounter(rq[p].seq) = rq[p].snap[1]

\* the store aborts a transaction whose read is stale, and may abort one that
\* contends with another open transaction on the same document
MustAbort(p) == ReadCounter(rq[p].seq) # rq[p].snap[1]
MayAbort(p) ==
    \/ MustAbort(p)
    \/ \E q \in Procs \ {p} : rq[q].pc = "txCommit" /\ rq[q].seq = rq[p].seq

RetryAlways(n) == TRUE

\* runTransaction runs its callback again after an abort while attempts remain
RetryAllowed(n) == n < MaxAttempts

NextValueSkips(current) == current + 2

\* const next = current + 1
NextValue(current) == current + 1

\* call nextId(s): the first attempt of the transaction is about to read
CallNextId(r, s) ==
    [r EXCEPT !.pc = "txGet", !.seq = s, !.snap = None, !.attempts = 0, !.idNum = None]

\* where the caller of nextId continues with the allocated number
AfterNextId(s) ==
    CASE s = "user_seq" -> "setUser"
      [] s = "rider_seq" -> "setCar"
      [] s = "address_seq" -> "setAddr"

\* const snap = await tx.get(ref)
TxGet(p) ==
    /\ rq[p].pc = "txGet"
    /\ Step(p, [rq[p] EXCEPT !.pc = "txCommit",
                             !.snap = Some(ReadCounter(rq[p].seq)),
                             !.attempts = @ + 1])
    /\ UNCHANGED <<variant, created, users, cars, addrs, counters, autoN, issued, started>>

\* next = current + 1; tx.set / tx.update; commit; return next
TxCommit(p) ==
    /\ rq[p].pc = "txCommit"
    /\ CanCommit(p)
    /\ LET s == rq[p].seq
           next == NextValue(rq[p].snap[1].value)
       IN /\ counters' = Put(counters, s, [value |-> next])
          /\ issued' = [issued EXCEPT ![s] = Append(@, next)]
          /\ Step(p, [rq[p] EXCEPT !.pc = AfterNextId(s), !.idNum = Some(next),
                                   !.snap = None, !.attempts = 0])
    /\ UNCHANGED <<variant, created, users, cars, addrs, autoN, started>>

\* the transaction is aborted: run it again, or reject once the attempts are used up
TxAbort(p) ==
    /\ rq[p].pc = "txCommit"
    /\ MayAbort(p)
    /\ IF RetryAllowed(rq[p].attempts)
       THEN Step(p, [rq[p] EXCEPT !.pc = "txGet", !.snap = None])
       ELSE Step(p, Throw([rq[p] EXCEPT !.snap = None, !.attempts = 0],
                          ABORTED, "aborted", << >>))
    /\ UNCHANGED <<variant, created, users, cars, addrs, counters, autoN, issued, started>>

(* ------------------------------ createUser ----------------------------- *)
normalizeRoleAny(role) == IF role = None THEN Some(0) ELSE role

\* Number(role ?? 0), None when it throws "role must be 0 or 1"
normalizeRoleInt(role) ==
    LET r == IF role = None THEN 0 ELSE role[1]
    IN IF r # 0 /\ r # 1 THEN None ELSE Some(r)

\* createUser up to its first await: the argument checks
EnterCreateUser(r) ==
    IF r.name = "" \/ r.password = "" \/ r.phone = ""
    THEN Throw(r, 400, "name, password, phone are required", << >>)
    ELSE IF normalizeRoleInt(r.role) = None
    THEN Throw(r, 400, "role must be 0 or 1", << >>)
    ELSE [r EXCEPT !.pc = "guard", !.roleInt = normalizeRoleInt(r.role)]

NewCreate(op, a, role) ==
    [Idle EXCEPT !.op = op, !.name = a.name, !.password = a.password,
                 !.phone = a.phone, !.role = role,
                 !.dupAtStart = \E k \in DOMAIN users : users[k].phone = a.phone]

\* createUser called with the caller's role (POST /users)
PostUsers(p) ==
    /\ \E a \in PostUsersArgs :
          Begin(p, EnterCreateUser(NewCreate("createUser", a, a.role)))
    /\ UNCHANGED <<variant, created, users, cars, addrs, counters, autoN, issued>>

\* POST /register/user: createUser with role 0
RegisterUser(p) ==
    /\ \E a \in RegisterUserArgs :
          Begin(p, EnterCreateUser(NewCreate("registerUser", a, Some(0))))
    /\ UNCHANGED <<variant, created, users, cars, addrs, counters, autoN, issued>>

\* POST /register/rider: createUser with role 1, then createRiderCar
RegisterRider(p) ==
    /\ \E a \in RegisterRiderArgs :
          Begin(p, EnterCreateUser(
              [NewCreate("registerRider", a, Some(1))
                  EXCEPT !.plate = a.plate, !.carType = a.carType]))
    /\ UNCHANGED <<variant, created, users, cars, addrs, counters, autoN, issued>>

\* the payload of the 409 of the duplicate guard
DupPayload(d) ==
    IF variant = "seq"
    THEN Merge([id |-> d], users[d])
    ELSE [id |-> d, phone |-> users[d].phone, name |-> users[d].name]

PhoneNeverTaken(ph) == FALSE

\* whether the duplicate guard's query finds a document
PhoneTaken(ph) == UsersByPhone(ph) # {}

\* await assertPhoneNotDuplicate(phone)
assertPhoneNotDuplicate(p) ==
    /\ rq[p].pc = "guard"
    /\ \/ /\ PhoneTaken(rq[p].phone)
          /\ \E d \in UsersByPhone(rq[p].phone) :
                Step(p, Throw(rq[p], 409, "phone already exists", DupPayload(d)))
       \/ /\ ~PhoneTaken(rq[p].phone)
          /\ Step(p, IF variant = "seq" THEN CallNextId(rq[p], "user_seq")
                     ELSE [rq[p] EXCEPT !.pc = "addUser"])
    /\ UNCHANGED <<variant, created, users, cars, addrs, counters, autoN, issued, started>>

\* the document createUser writes
UserData(r) ==
    IF variant = "seq"
    THEN [user_id |-> r.idNum[1], name |-> r.name, password |-> r.password,
          phone |-> r.phone, role |-> r.roleInt[1]]
    ELSE [name |-> r.name, password |-> r.password,
          phone |-> r.phone, role |-> r.roleInt[1]]

EnterCreateRiderCarPlateOnly(r) ==
    IF r.userKey = None \/ r.plate = ""
    THEN Throw(r, 400, "user_id, plate_number, car_type are required", << >>)
    ELSE IF variant = "seq" THEN CallNextId(r, "rider_seq")
    ELSE [r EXCEPT !.pc = "addCar"]

\* createRiderCar up to its first await, called with the created user's id
EnterCreateRiderCar(r) ==
    IF r.userKey = None \/ r.plate = "" \/ r.carType = ""
    THEN Throw(r, 400, "user_id, plate_number, car_type are required", << >>)
    ELSE IF variant = "seq" THEN CallNextId(r, "rider_seq")
    ELSE [r EXCEPT !.pc = "addCar"]

\* createUser has returned user to its caller: the route answers or goes on
UserCreated(r, user) ==
    CASE r.op = "createUser" -> Respond(r, 201, user)
      [] r.op = "registerUser" -> Respond(r, 201, [user |-> user])
      [] r.op = "registerRider" -> EnterCreateRiderCar([r EXCEPT !.user = Some(user)])

\* await db.collection(USER_COL).doc(id).set(data); return {id, ...data}
SetUser(p) ==
    /\ rq[p].pc = "setUser"
    /\ LET id == KeyOfNum(rq[p].idNum[1])
           data == UserData(rq[p])
       IN /\ users' = Put(users, id, data)
          /\ Step(p, UserCreated([rq[p] EXCEPT !.userKey = Some(id), !.idNum = None,
                                              !.wrote = Some(data)],
                                 Merge([id |-> id], data)))
          /\ created' = created \cup {id}
    /\ UNCHANGED <<variant, cars, addrs, counters, autoN, issued, started>>

\* const ref = await db.collection(USER_COL).add({...})
AddUser(p) ==
    /\ rq[p].pc = "addUser"
    /\ LET id == AutoKey(autoN + 1)
       IN /\ autoN' = autoN + 1
          /\ users' = Put(users, id, UserData(rq[p]))
          /\ Step(p, [rq[p] EXCEPT !.pc = "getUser", !.userKey = Some(id),
                                   !.wrote = Some(UserData(rq[p]))])
          /\ created' = created \cup {id}
    /\ UNCHANGED <<variant, cars, addrs, counters, issued, started>>

\* const doc = await ref.get(); return {id: ref.id, ...doc.data()}
GetUser(p) ==
    /\ rq[p].pc = "getUser"
    /\ LET id == rq[p].userKey[1]
           data == IF id \in DOMAIN users THEN users[id] ELSE << >>
       IN Step(p, UserCreated(rq[p], Merge([id |-> id], data)))
    /\ UNCHANGED <<variant, created, users, cars, addrs, counters, autoN, issued, started>>

(* ---------------------------- createRiderCar --------------------------- *)
CarDataOwnId(r) ==
    IF variant = "seq"
    THEN [rider_id |-> r.idNum[1], user_id |-> [num |-> r.idNum[1]],
          plate_number |-> r.plate, car_type |-> r.carType]
    ELSE [user_id |-> [str |-> r.phone],
          plate_number |-> r.plate, car_type |-> r.carType]

\* the document createRiderCar writes
CarData(r) ==
    IF variant = "seq"
    THEN [rider_id |-> r.idNum[1], user_id |-> UserIdField(r.userKey[1]),
          plate_number |-> r.plate, car_type |-> r.carType]
    ELSE [user_id |-> [str |-> r.userKey[1]],
          plate_number |-> r.plate, car_type |-> r.carType]

\* await db.collection(RIDER_COL).doc(riderId).set(payload); the route answers 201
SetCar(p) ==
    /\ rq[p].pc = "setCar"
    /\ LET id == KeyOfNum(rq[p].idNum[1])
           data == CarData(rq[p])
       IN /\ cars' = Put(cars, id, data)
          /\ Step(p, Respond([rq[p] EXCEPT !.carKey = Some(id), !.idNum = None], 201,
                             [user |-> rq[p].user[1],
                              rider_car |-> Merge([id |-> id], data)]))
    /\ UNCHANGED <<variant, created, users, addrs, counters, autoN, issued, started>>

\* const ref = await db.collection(RIDER_COL).add(payload)
AddCar(p) ==
    /\ rq[p].pc = "addCar"
    /\ LET id == AutoKey(autoN + 1)
       IN /\ autoN' = autoN + 1
          /\ cars' = Put(cars, id, CarData(rq[p]))
          /\ Step(p, [rq[p] EXCEPT !.pc = "getCar", !.carKey = Some(id)])
    /\ UNCHANGED <<variant, created, users, addrs, counters, issued, started>>

\* const doc = await ref.get(); the route answers 201
GetCar(p) ==
    /\ rq[p].pc = "getCar"
    /\ LET id == rq[p].carKey[1]
           data == IF id \in DOMAIN cars THEN cars[id] ELSE << >>
       IN Step(p, Respond(rq[p], 201,
                          [user |-> rq[p].user[1],
                           rider_car |-> Merge([id |-> id], data)]))
    /\ UNCHANGED <<variant, created, users, cars, addrs, counters, autoN, issued, started>>

(* ----------------------------- createAddress --------------------------- *)
AddressArgs ==
    { [id |-> k, address |-> a] : k \in TargetKeys, a \in {"", "a1"} }

\* createAddress up to its first await: the argument check
EnterCreateAddress(r) ==
    IF r.id = "" \/ r.address = ""
    THEN Throw(r, 400, "user_id and address are required", << >>)
    ELSE IF variant = "seq" THEN CallNextId(r, "address_seq")
    ELSE [r EXCEPT !.pc = "addAddr"]

NewAddress(a) ==
    [Idle EXCEPT !.op = "createAddress", !.id = a.id, !.address = a.address,
                 !.noUser = a.id \notin DOMAIN users]

\* index.js: createAddress({user_id, address}) is called;
\* part_000: POST /users/:id/addresses arrives and reads the user document
CreateAddress(p) ==
    /\ \E a \in AddressArgs \cup (IF variant = "seq"
                                  THEN {[id |-> "", address |-> "a1"]} ELSE {}) :
          Begin(p, IF variant = "seq" THEN EnterCreateAddress(NewAddress(a))
                   ELSE [NewAddress(a) EXCEPT !.pc = "checkUser"])
    /\ UNCHANGED <<variant, created, users, cars, addrs, counters, autoN, issued>>

\* whether the user document the address route read exists
UserExists(key) == key \in DOMAIN users

\* const udoc = await ...doc(user_id).get(); if (!udoc.exists) return 404;
\* then createAddress is entered
CheckUser(p) ==
    /\ rq[p].pc = "checkUser"
    /\ Step(p, IF ~UserExists(rq[p].id)
               THEN Respond(rq[p], 404, [error |-> "user not found"])
               ELSE EnterCreateAddress(rq[p]))
    /\ UNCHANGED <<variant, created, users, cars, addrs, counters, autoN, issued, started>>

\* the document createAddress writes
AddressData(r) ==
    IF variant = "seq"
    THEN [address_id |-> r.idNum[1], user_id |-> UserIdField(r.id),
          address |-> r.address]
    ELSE [user_id |-> [str |-> r.id], address |-> r.address]

\* await db.collection(ADDR_COL).doc(addrId).set(payload); return {id, ...payload}
SetAddr(p) ==
    /\ rq[p].pc = "setAddr"
    /\ LET id == KeyOfNum(rq[p].idNum[1])
           data == AddressData(rq[p])
       IN /\ addrs' = Put(addrs, id, data)
          /\ Step(p, Respond([rq[p] EXCEPT !.addrKey = Some(id), !.idNum = None], 201,
                             Merge([id |-> id], data)))
    /\ UNCHANGED <<variant, created, users, cars, counters, autoN, issued, started>>

\* const ref = await db.collection(ADDR_COL).add(payload)
AddAddr(p) ==
    /\ rq[p].pc = "addAddr"
    /\ LET id == AutoKey(autoN + 1)
       IN /\ autoN' = autoN + 1
          /\ addrs' = Put(addrs, id, AddressData(rq[p]))
          /\ Step(p, [rq[p] EXCEPT !.pc = "getAddr", !.addrKey = Some(id)])
    /\ UNCHANGED <<variant, created, users, cars, counters, issued, started>>

\* const doc = await ref.get(); the route answers 201 {address: addr}
GetAddr(p) ==
    /\ rq[p].pc = "getAddr"
    /\ LET id == rq[p].addrKey[1]
           data == IF id \in DOMAIN addrs THEN addrs[id] ELSE << >>
       IN Step(p, Respond(rq[p], 201, [address |-> Merge([id |-> id], data)]))
    /\ UNCHANGED <<variant, created, users, cars, addrs, counters, autoN, issued, started>>

(* --------------------------- PATCH /users/:id -------------------------- *)
\* PATCH /users/:id arrives and reads the document
PatchUser(p) ==
    /\ \E k \in TargetKeys, b \in PatchArgs :
          Begin(p, [Idle EXCEPT !.op = "patchUser", !.pc = "patchGet",
                                !.id = k, !.patch = Some(b)])
    /\ UNCHANGED <<variant, created, users, cars, addrs, counters, autoN, issued>>

\* the role the patch carries once the handler has converted it; None when
\* the conversion throws
PatchRole(role) ==
    IF variant = "seq" THEN normalizeRoleInt(role) ELSE role

\* const before = await ref.get(); 404 if missing; build the patch
PatchGet(p) ==
    /\ rq[p].pc = "patchGet"
    /\ LET b == rq[p].patch[1]
       IN Step(p,
            IF rq[p].id \notin DOMAIN users
            THEN Respond(rq[p], 404, [error |-> "not found"])
            ELSE IF b.role # None /\ PatchRole(b.role) = None
            THEN Respond(rq[p], 400, [error |-> "role must be 0 or 1"])
            ELSE LET nb == IF b.role = None THEN b
                           ELSE [b EXCEPT !.role = PatchRole(b.role)]
                 IN [rq[p] EXCEPT !.patch = Some(nb),
                                  !.pc = IF nb.phone # None /\ nb.phone[1] # ""
                                         THEN "patchDup" ELSE "patchUpdate"])
    /\ UNCHANGED <<variant, created, users, cars, addrs, counters, autoN, issued, started>>

\* const dup = await ...where("phone","==",String(patch.phone)).limit(1).get()
PatchDup(p) ==
    /\ rq[p].pc = "patchDup"
    /\ LET found == UsersByPhone(rq[p].patch[1].phone[1])
       IN \/ /\ found = {}
             /\ Step(p, [rq[p] EXCEPT !.pc = "patchUpdate"])
          \/ \E d \in found :
                Step(p, IF d # rq[p].id
                        THEN Respond(rq[p], 409, [error |-> "phone already exists"])
                        ELSE [rq[p] EXCEPT !.pc = "patchUpdate"])
    /\ UNCHANGED <<variant, created, users, cars, addrs, counters, autoN, issued, started>>

\* the fields the patch sets
PatchFields(b) ==
    Merge(IF b.phone = None THEN << >> ELSE [phone |-> b.phone[1]],
          IF b.role = None THEN << >> ELSE [role |-> b.role[1]])

\* await ref.update(patch): rejects for an empty patch and for a missing document
PatchUpdate(p) ==
    /\ rq[p].pc = "patchUpdate"
    /\ LET k == rq[p].id
           fields == PatchFields(rq[p].patch[1])
       IN IF DOMAIN fields = {} \/ k \notin DOMAIN users
          THEN /\ Step(p, Respond(rq[p], 400, [error |-> "update failed"]))
               /\ users' = users
          ELSE /\ users' = Put(users, k, Merge(users[k], fields))
               /\ rq' = [Touch(rq, k, p) EXCEPT ![p] = [rq[p] EXCEPT !.pc = "patchAfter"]]
    /\ UNCHANGED <<variant, created, cars, addrs, counters, autoN, issued, started>>

\* const after = await ref.get(); res.json({id: after.id, ...after.data()})
PatchAfter(p) ==
    /\ rq[p].pc = "patchAfter"
    /\ LET k == rq[p].id
           data == IF k \in DOMAIN users THEN users[k] ELSE << >>
       IN Step(p, Respond(rq[p], 200, Merge([id |-> k], data)))
    /\ UNCHANGED <<variant, created, users, cars, addrs, counters, autoN, issued, started>>

(* -------------------------- DELETE /users/:id -------------------------- *)
\* DELETE /users/:id arrives and reads the document
DeleteUser(p) ==
    /\ \E k \in TargetKeys :
          Begin(p, [Idle EXCEPT !.op = "deleteUser", !.pc = "deleteGet", !.id = k])
    /\ UNCHANGED <<variant, created, users, cars, addrs, counters, autoN, issued>>

\* const doc = await ref.get(); if (!doc.exists) return 404
DeleteGet(p) ==
    /\ rq[p].pc = "deleteGet"
    /\ Step(p, IF rq[p].id \notin DOMAIN users
               THEN Respond(rq[p], 404, [error |-> "not found"])
               ELSE [rq[p] EXCEPT !.pc = "deleteDo"])
    /\ UNCHANGED <<variant, created, users, cars, addrs, counters, autoN, issued, started>>

\* await ref.delete(); res.json({ok: true})
DeleteDo(p) ==
    /\ rq[p].pc = "deleteDo"
    /\ users' = Remove(users, rq[p].id)
    /\ rq' = [Touch(rq, rq[p].id, p) EXCEPT
                ![p] = Respond(rq[p], 200, [ok |-> TRUE])]
    /\ UNCHANGED <<variant, created, cars, addrs, counters, autoN, issued, started>>

(* ------------------------------ POST /login ---------------------------- *)
\* POST /login arrives: 400 unless phone and password are given
Login(p) ==
    /\ \E a \in LoginArgs :
          LET r == [Idle EXCEPT !.op = "login", !.phone = a.phone,
                                !.password = a.password]
          IN Begin(p, IF a.phone = "" \/ a.password = ""
                      THEN Respond(r, 400, [error |-> "phone and password are required"])
                      ELSE [r EXCEPT !.pc = "loginQuery"])
    /\ UNCHANGED <<variant, created, users, cars, addrs, counters, autoN, issued>>

\* res.json({ id: d.id, name: u.name, phone: u.phone, role: Number(u.role) })
LoginBody(d, u) == [id |-> d, name |-> u.name, phone |-> u.phone, role |-> u.role]

\* const snap = await ...where("phone","==",String(phone)).limit(1).get();
\* 401 if empty or the password differs, else 200
LoginQuery(p) ==
    /\ rq[p].pc = "loginQuery"
    /\ LET found == UsersByPhone(rq[p].phone)
       IN \/ /\ found = {}
             /\ Step(p, Respond(rq[p], 401, [error |-> "invalid credentials"]))
          \/ \E d \in found :
                Step(p, IF users[d].password # rq[p].password
                        THEN Respond(rq[p], 401, [error |-> "invalid credentials"])
                        ELSE Respond(rq[p], 200, LoginBody(d, users[d])))
    /\ UNCHANGED <<variant, created, users, cars, addrs, counters, autoN, issued, started>>

(* ---------------------------- specification ---------------------------- *)
Next ==
    \E p \in Procs :
        \/ PostUsers(p)
        \/ RegisterUser(p)
        \/ RegisterRider(p)
        \/ assertPhoneNotDuplicate(p)
        \/ TxGet(p)
        \/ TxCommit(p)
        \/ TxAbort(p)
        \/ SetUser(p)
        \/ AddUser(p)
        \/ GetUser(p)
        \/ SetCar(p)
        \/ AddCar(p)
        \/ GetCar(p)
        \/ CreateAddress(p)
        \/ CheckUser(p)
        \/ SetAddr(p)
        \/ AddAddr(p)
        \/ GetAddr(p)
        \/ PatchUser(p)
        \/ PatchGet(p)
        \/ PatchDup(p)
        \/ PatchUpdate(p)
        \/ PatchAfter(p)
        \/ DeleteUser(p)
        \/ DeleteGet(p)
        \/ DeleteDo(p)
        \/ Login(p)
        \/ LoginQuery(p)

Spec == Init /\ [][Next]_vars

(* ------------------------------- claims -------------------------------- *)
\* the stored value of a sequence, 0 while its record is absent
CounterValue(c, s) == IF s \in DOMAIN c THEN c[s].value ELSE 0

\* C1: for every sequence, the values nextId has returned to its callers are
\* pairwise distinct, under every interleaving of the callers' transactions
\* (also for callers that hold their numbers at the same time).
C1_DistinctIds ==
    /\ \A s \in SeqNames : \A i, j \in DOMAIN issued[s] :
          i # j => issued[s][i] # issued[s][j]
    /\ \A p, q \in Procs :
          (p # q /\ rq[p].idNum # None /\ rq[q].idNum # None /\ rq[p].seq = rq[q].seq)
              => rq[p].idNum # rq[q].idNum

\* two callers of nextId("user_seq") whose calls overlapped hold their numbers
C1_Witness ==
    \E p, q \in Procs :
        /\ p # q
        /\ rq[p].pc = "setUser" /\ rq[q].pc = "setUser"

\* C2: the stored value of every sequence never decreases; a step in which
\* nextId returns raises it by exactly 1 (from 0 when the record is absent),
\* the number returned is the number written, and no other step changes it.
C2_CounterStep ==
    [][\A s \in SeqNames :
          LET a == CounterValue(counters, s)
              b == CounterValue(counters', s)
          IN /\ b >= a
             /\ IF Len(issued'[s]) = Len(issued[s]) + 1
                THEN /\ b = a + 1
                     /\ issued'[s][Len(issued'[s])] = b
                     /\ \E p \in Procs : /\ rq[p].pc = "txCommit" /\ rq[p].seq = s
                                         /\ rq'[p].idNum = Some(b)
                ELSE /\ b = a
                     /\ issued'[s] = issued[s]]_vars

\* the record of user_seq exists and has been incremented twice
C2_Witness ==
    /\ "user_seq" \in DOMAIN counters
    /\ counters["user_seq"].value = 2
    /\ issued["user_seq"] = <<1, 2>>

\* C3: a transaction of nextId that is aborted is run again only while
\* attempts remain (never more than MaxAttempts attempts); the abort of
\* the last attempt ends the call with the store's error, with no number
\* returned and the counter unchanged; a number is returned only by the step
\* that commits its increment.
C3_BoundedRetry ==
    [][\A p \in Procs :
          /\ rq'[p].attempts <= MaxAttempts
          /\ (rq[p].pc = "txCommit" /\ rq'[p].pc = "txGet")
                => /\ rq[p].attempts < MaxAttempts
                   /\ rq'[p].idNum = None
                   /\ counters' = counters
          /\ (rq[p].pc = "txCommit" /\ rq'[p].pc = "done")
                => /\ rq[p].attempts = MaxAttempts
                   /\ rq'[p].resp[1].status = ABORTED
                   /\ rq'[p].idNum = None
                   /\ counters' = counters /\ issued' = issued
          /\ (rq'[p].idNum # None /\ rq'[p].idNum # rq[p].idNum)
                => /\ rq[p].pc = "txCommit"
                   /\ CounterValue(counters', rq[p].seq) = rq'[p].idNum[1]
                   /\ CounterValue(counters, rq[p].seq) = rq'[p].idNum[1] - 1]_vars

\* a call of nextId has failed after its last attempt was aborted
C3_Witness ==
    \E p \in Procs :
        /\ rq[p].pc = "done"
        /\ rq[p].resp[1].status = ABORTED

CreateOps == {"createUser", "registerUser", "registerRider"}

\* the request of slot p has been answered
Answered(p) == rq[p].pc = "done"
Status(p) == rq[p].resp[1].status

\* createUser's own argument checks pass for the request of slot p
ValidCreate(p) ==
    /\ rq[p].name # "" /\ rq[p].password # "" /\ rq[p].phone # ""
    /\ rq[p].role \in {None, Some(0), Some(1)}

\* C4: no two stored User records have the same phone, in every state
\* reachable by interleaving user creations, PATCH and DELETE.
C4_PhoneUnique ==
    \A k1, k2 \in DOMAIN users : k1 # k2 => users[k1].phone # users[k2].phone

\* C5: a createUser call that runs with no other request in flight, with
\* valid arguments: if a stored user has its phone when it is called it
\* ends 409 and writes no user document; if none has, it writes one and the
\* route answers 201.
C5_SecondCallConflicts ==
    \A p \in Procs :
        (Answered(p) /\ rq[p].op \in CreateOps /\ ValidCreate(p) /\ rq[p].alone)
            => IF rq[p].dupAtStart
               THEN Status(p) = 409 /\ rq[p].userKey = None /\ rq[p].wrote = None
               ELSE /\ rq[p].userKey # None
                    /\ rq[p].op # "registerRider" => Status(p) = 201

\* the second of two createUser calls with the same phone has been answered,
\* the user the first one stored still being there
C5_Witness ==
    \E p \in Procs :
        /\ Answered(p) /\ rq[p].op = "createUser" /\ ValidCreate(p)
        /\ rq[p].alone /\ rq[p].dupAtStart
        /\ Status(p) = 409
        /\ \E k \in DOMAIN users : users[k].phone = rq[p].phone

\* C6: createUser writes role 0 when called with no role and the given role
\* when called with 0 or 1; called with another role it ends 400 and writes
\* no user document; a call with a role of {absent, 0, 1} and otherwise
\* valid, unused phone, run alone, does write.
C6_RoleNormalized ==
    \A p \in Procs :
        (Answered(p) /\ rq[p].op \in CreateOps)
            => /\ rq[p].wrote # None =>
                    /\ rq[p].role = None => rq[p].wrote[1].role = 0
                    /\ rq[p].role # None => rq[p].wrote[1].role = rq[p].role[1]
                    /\ rq[p].wrote[1].role \in {0, 1}
               /\ (rq[p].role \notin {None, Some(0), Some(1)}
                      /\ rq[p].name # "" /\ rq[p].password # "" /\ rq[p].phone # "")
                    => Status(p) = 400 /\ rq[p].wrote = None /\ rq[p].userKey = None
               /\ (ValidCreate(p) /\ rq[p].alone /\ ~rq[p].dupAtStart)
                    => rq[p].wrote # None

\* one call without a role has stored role 0 and one call with role 2 has
\* been refused
C6_Witness ==
    \E p, q \in Procs :
        /\ Answered(p) /\ rq[p].op = "createUser" /\ rq[p].role = None
        /\ Status(p) = 201 /\ rq[p].wrote # None /\ rq[p].wrote[1].role = 0
        /\ Answered(q) /\ rq[q].op = "createUser" /\ rq[q].role = Some(2)
        /\ Status(q) = 400

CarsOf(key) == { c \in DOMAIN cars : KeyOfField(cars[c].user_id) = key }

\* C8: once POST /register/rider has answered 201, exactly one rider_car
\* document references the user it created, and that user document is
\* stored with role 1 and the registered phone (as long as no other request
\* has deleted or updated that document since).
C8_RiderRegistered ==
    \A p \in Procs :
        (Answered(p) /\ rq[p].op = "registerRider" /\ Status(p) = 201)
            => /\ rq[p].userKey # None
               /\ Cardinality(CarsOf(rq[p].userKey[1])) = 1
               /\ rq[p].carKey # None /\ CarsOf(rq[p].userKey[1]) = {rq[p].carKey[1]}
               /\ ~rq[p].touched =>
                    /\ rq[p].userKey[1] \in DOMAIN users
                    /\ users[rq[p].userKey[1]].role = 1
                    /\ users[rq[p].userKey[1]].phone = rq[p].phone

\* a rider registration has answered 201 after an earlier user was created
C8_Witness ==
    \E p \in Procs :
        /\ Answered(p) /\ rq[p].op = "registerRider" /\ Status(p) = 201
        /\ ~rq[p].touched
        /\ Cardinality(DOMAIN users) = 2

\* C9: a rider registration whose user was created and whose vehicle
\* creation failed (a vehicle field missing: 400; the rider_seq transaction
\* rejected: the store's error) answers with that error, leaves no rider_car
\* document referencing the user, and leaves the user document stored with
\* role 1 (as long as no other request has deleted or updated it since);
\* a missing vehicle field always makes the vehicle creation fail.
C9_NoCompensation ==
    \A p \in Procs :
        (Answered(p) /\ rq[p].op = "registerRider" /\ rq[p].userKey # None)
            => /\ (rq[p].plate = "" \/ rq[p].carType = "") => Status(p) = 400
               /\ Status(p) # 201 =>
                    /\ Status(p) \in {400, ABORTED}
                    /\ rq[p].carKey = None
                    /\ CarsOf(rq[p].userKey[1]) = {}
                    /\ ~rq[p].touched =>
                         /\ rq[p].userKey[1] \in DOMAIN users
                         /\ users[rq[p].userKey[1]].role = 1
                         /\ users[rq[p].userKey[1]].phone = rq[p].phone

\* a rider registration has answered 400 for a missing vehicle field after
\* its user was stored
C9_Witness ==
    \E p \in Procs :
        /\ Answered(p) /\ rq[p].op = "registerRider" /\ rq[p].userKey # None
        /\ Status(p) = 400 /\ rq[p].carType = ""
        /\ rq[p].userKey[1] \in DOMAIN users

\* the stored users a login's phone and password match
Matching(ph, w) ==
    { k \in DOMAIN users : users[k].phone = ph /\ users[k].password = w }

\* C10: the step in which POST /login answers: if a stored user matches phone
\* and password the answer is 200 with that user's id, name, phone and role;
\* otherwise it is 401; the answer never has a password field; no stored
\* record changes.
C10_Login ==
    [][\A p \in Procs :
          (rq[p].pc = "loginQuery" /\ rq'[p].pc = "done")
            => LET m == Matching(rq[p].phone, rq[p].password)
                   r == rq'[p].resp[1]
               IN /\ m # {} =>
                       /\ r.status = 200
                       /\ \E k \in m : r.body = [id |-> k, name |-> users[k].name,
                                                  phone |-> users[k].phone,
                                                  role |-> users[k].role]
                  /\ m = {} => r.status = 401
                  /\ "password" \notin DOMAIN r.body
                  /\ users' = users /\ cars' = cars /\ addrs' = addrs
                  /\ counters' = counters]_vars

\* C10, with the phones of the stored users pairwise distinct when the
\* login's query runs: the answer is as C10 states.
C10_LoginUniquePhones ==
    [][\A p \in Procs :
          (rq[p].pc = "loginQuery" /\ rq'[p].pc = "done" /\ C4_PhoneUnique)
            => LET m == Matching(rq[p].phone, rq[p].password)
                   r == rq'[p].resp[1]
               IN /\ m # {} =>
                       /\ r.status = 200
                       /\ \E k \in m : r.body = [id |-> k, name |-> users[k].name,
                                                  phone |-> users[k].phone,
                                                  role |-> users[k].role]
                  /\ m = {} => r.status = 401
                  /\ "password" \notin DOMAIN r.body
                  /\ users' = users /\ cars' = cars /\ addrs' = addrs
                  /\ counters' = counters]_vars

\* C11: the step in which the duplicate guard finds a user with the phone
\* answers 409, and the payload of that answer carries the id, name and
\* phone of a stored user with that phone and no other stored field (no
\* password).
C11_ConflictPayload ==
    [][\A p \in Procs :
          (rq[p].pc = "guard" /\ rq'[p].pc = "done")
            => LET r == rq'[p].resp[1]
               IN /\ r.status = 409
                  /\ DOMAIN r.body = {"error", "id", "name", "phone"}
                  /\ \E d \in UsersByPhone(rq[p].phone) :
                        /\ r.body.id = d
                        /\ r.body.name = users[d].name
                        /\ r.body.phone = users[d].phone]_vars

\* C12: every stored User document has role 0 or 1, in every state reached
\* by user creations and PATCH /users/:id requests.
C12_RoleInRange ==
    \A k \in DOMAIN users : users[k].role \in {0, 1}

\* C12, for the revision whose PATCH converts the role with
\* normalizeRoleInt (index.js lines 392-415): every stored role is 0 or 1.
C12_RoleInRangeSeq ==
    variant = "seq" => \A k \in DOMAIN users : users[k].role \in {0, 1}

\* C13: in the step in which the address route (user check, then
\* createAddress) persists the Address document, a User document with the
\* referenced user_id is stored, whatever DELETE /users/:id requests run in
\* between.
C13_UserAtAddressWrite ==
    [][\A p \in Procs :
          (rq[p].pc = "addAddr" /\ rq'[p].pc = "getAddr")
            => rq[p].id \in DOMAIN users]_vars

\* C14: in the revision with the id allocator, the step in which createUser
\* writes its document uses a key that no earlier createUser has written
\* (whether that user is still stored or was deleted) and that no stored
\* document has, and after every step every stored user's user_id is at most
\* the value of the user_seq counter.
C14_NoReuse ==
    [][variant = "seq" =>
          /\ \A p \in Procs :
                (rq[p].pc = "setUser" /\ rq'[p].pc # "setUser")
                  => /\ KeyOfNum(rq[p].idNum[1]) \notin created
                     /\ KeyOfNum(rq[p].idNum[1]) \notin DOMAIN users
          /\ \A k \in DOMAIN users' :
                /\ users'[k].user_id <= CounterValue(counters', "user_seq")
                /\ KeyOfNum(users'[k].user_id) = k]_vars

\* a createUser has written its document after an earlier-created user was
\* deleted, while another created user is stored
C14_Witness ==
    /\ variant = "seq"
    /\ created \ DOMAIN users # {}
    /\ \E p \in Procs : /\ rq[p].userKey # None
                        /\ rq[p].userKey[1] \in DOMAIN users
                        /\ \E k \in created \ DOMAIN users :
                              \E n \in 1..MaxReqs :
                                 /\ KeyOfNum(n) = k
                                 /\ users[rq[p].userKey[1]].user_id > n

====
